---- MODULE Spec2Model ----
(***************************************************************************)
(* Model of mock_rest_server.database.JsonDatabase: the in-memory record   *)
(* store with its data_lock, and the persistence loop                      *)
(* (maintain_data_persistence / _persist / shutdown).                      *)
(*                                                                         *)
(* Threads: the threads of Clients, which call create, set, update and     *)
(* delete on the one JsonDatabase (the callers data_lock is there for);    *)
(* the persistence thread; the thread that runs shutdown().  Every shared  *)
(* read or write of the source is one step.  The order of the keys of a    *)
(* dict is taken to be ResOrder / IdOrder.                                 *)
(*                                                                         *)
(* CrudSpec is the store alone, before any thread is started: one caller   *)
(* makes whole calls, one after the other, and may pass the same dict to   *)
(* several calls.  read, list_resource and available_resources change      *)
(* nothing and are operators on self.records.                              *)
(*                                                                         *)
(* Time is the value of time.time().  Statements take no time: the clock   *)
(* advances (Tick) only while every request thread is between calls and    *)
(* the persistence thread is blocked in a wait or has ended.               *)
(***************************************************************************)
EXTENDS Integers, Sequences, FiniteSets, TLC

\* ------------------------------------------------------------------ bounds
MaxCalls == 2       \* store calls made in one run
Period == 2         \* persist_period_limit given to the constructor
StartTime == Period \* time.time() at construction (an epoch time: far more
                    \* than persist_period_limit after last_save = -1)
MaxTime == StartTime + Period + 1   \* last value of the clock

Clients == {"c1", "c2"}        \* request threads that run at the same time
ClientOrder == <<"c1", "c2">>
Resources == {"r1", "r2"}
ResOrder == <<"r1", "r2">>
NoId == "none"                 \* record_id=None
GivenIds == {"i1"}             \* ids a caller passes or puts in the body
GenIds == {"u1"}               \* values of str(uuid.uuid4())
IdOrder == <<"i1", "i2", "u1">>
id_field == "id"

EmptyFn == [x \in {} |-> x]
Bodies == { [a |-> "v1"] }     \* record bodies of the calls

\* ------------------------------------------------------------------ state
VARIABLES
    records,               \* self.records: resource -> (id -> record)
    dirty,                 \* self.dirty
    data_changed,          \* self.data_changed (Event)
    persist_stop,          \* self.persist_stop (Event)
    persist_period_limit,  \* self.persist_period_limit
    last_save,             \* self.last_save
    data_lock,             \* holder of self.data_lock, or "free"
    db_file,               \* TRUE when a backing file path is configured
    file,                  \* content of the backing file
    now,                   \* time.time()
    pc, op, ret,           \* request threads: position, call, last result
    lpc,                   \* persistence thread: position
    loop_now,              \* local `now` of maintain_data_persistence
    deadline,              \* end of persist_stop.wait(timeout)
    iter_size, iter_todo,  \* dict iterator of _persist: size seen, keys left
    snap,                  \* dict built by the comprehension of _persist
    spc,                   \* shutdown thread: position
    quota,                 \* number of store calls still to be made
    unsaved,               \* history: a mutation was applied since the last
                           \*   completed write of the file (or startup)
    last_write,            \* history: time the last write of the file began
    last_mut,              \* history: time of the last mutation
    burst_start,           \* history: time of the first mutation of the burst
    burst_writes,          \* history: completed writes since the burst began
    woke_clean,            \* history: the last wake-up found dirty false
    owed,                  \* history: a mutation completed before shutdown()
                           \*   was called is not yet in a completed write
    saved,                 \* history: self.records at the instant the last
                           \*   write of the file completed (or at startup)
    held,                  \* the dict `d` that the caller keeps and may pass
                           \*   to create, set and update again
    alias,                 \* the places <<resource, id>> of self.records
                           \*   whose record is that very dict
    made,                  \* history: the last successful create, until a
                           \*   later call writes or deletes its id
    gone                   \* history: the places deleted and not inserted
                           \*   again since

storeVars == <<records, dirty, data_changed, persist_stop,
               persist_period_limit, last_save, data_lock, db_file, file>>
callerVars == <<held, alias, made, gone>>
clientVars == <<pc, op, ret, quota, callerVars>>
loopVars == <<lpc, loop_now, deadline, iter_size, iter_todo, snap>>
histVars == <<unsaved, last_write, last_mut, burst_start, burst_writes,
              woke_clean, owed, saved>>
vars == <<storeVars, clientVars, loopVars, histVars, now, spc>>

\* ---------------------------------------------------------------- helpers
Put(f, k, v) == [x \in (DOMAIN f) \cup {k} |-> IF x = k THEN v ELSE f[x]]
Remove_all(f, k) == EmptyFn
Remove(f, k) == [x \in (DOMAIN f) \ {k} |-> f[x]]

Merge_replace(d, e) == e

\* d.update(e)
Merge(d, e) == [x \in (DOMAIN d) \cup (DOMAIN e) |->
                   IF x \in DOMAIN e THEN e[x] ELSE d[x]]

\* resource in self.records and record_id in self.records[resource]
Has(recs, r, i) == r \in DOMAIN recs /\ i \in DOMAIN recs[r]

\* self.records[resource] of the defaultdict: a missing key is inserted
Vivify(recs, r) == IF r \in DOMAIN recs THEN recs ELSE Put(recs, r, EmptyFn)

\* list(resource_records.values())
ValuesList(d) ==
    LET ids == SelectSeq(IdOrder, LAMBDA i : i \in DOMAIN d)
    IN  [k \in 1..Len(ids) |-> d[ids[k]]]

\* the object json.dump writes: resource -> list of records
Dump(recs) == [r \in DOMAIN recs |-> ValuesList(recs[r])]

KeysOf(recs) == SelectSeq(ResOrder, LAMBDA r : r \in DOMAIN recs)

\* `if record_id`: None and the empty string are false
Falsy == {NoId, ""}
Truthy(i) == i \notin Falsy

ResolveId_bodyfirst(record, record_id) ==
    IF id_field \in DOMAIN record THEN record[id_field] ELSE record_id

\* if record_id: ... elif self.id_field in record: record_id = record[id]
ResolveId(record, record_id) ==
    IF Truthy(record_id) THEN record_id
    ELSE IF id_field \in DOMAIN record THEN record[id_field]
    ELSE record_id

\* if record_id: record[self.id_field] = record_id
Stamp(record, record_id) ==
    IF Truthy(record_id) THEN Put(record, id_field, record_id) ELSE record

NoFile == [kind |-> "absent", data |-> EmptyFn]
Truncated == [kind |-> "empty", data |-> EmptyFn]
Written(d) == [kind |-> "data", data |-> d]

Ok(v) == [status |-> "ok", value |-> v]
Raise(e) == [status |-> e, value |-> EmptyFn]
NoOp == [kind |-> "none", resource |-> "r1", record_id |-> NoId,
         record |-> EmptyFn]
NoMade == [live |-> FALSE, resource |-> "r1", record_id |-> NoId,
           record |-> EmptyFn]


\* ------------------------------------------------------------ construction
\* JsonDatabase.__init__: self.records.update({resource: {record[id]: record
\*   for record in resource_records} for resource, ... in json.load(db)})
Load(data) ==
    [r \in DOMAIN data |->
        [i \in {data[r][k][id_field] : k \in DOMAIN data[r]} |->
            LET k == CHOOSE j \in DOMAIN data[r] :
                        /\ data[r][j][id_field] = i
                        /\ \A m \in DOMAIN data[r] :
                              data[r][m][id_field] = i => m <= j
            IN  data[r][k]]]

\* what else the constructor can find at db_file
Directory == [kind |-> "dir", data |-> EmptyFn]     \* is_file() is false
Unreadable == [kind |-> "locked", data |-> EmptyFn] \* open() raises
Malformed == [kind |-> "text", data |-> EmptyFn]    \* json.load raises

\* every record of the resource has the id field: record[self.id_field]
\* raises KeyError otherwise
Keyed(data, r) == \A k \in DOMAIN data[r] : id_field \in DOMAIN data[r][k]

Construct_partial(f) ==
    IF f.kind = "data"
    THEN Load([r \in {x \in DOMAIN f.data : Keyed(f.data, x)} |-> f.data[r]])
    ELSE EmptyFn

\* __init__, lines 60-80: self.records after construction.  The dict
\* comprehension is built in full before self.records.update receives it,
\* and `except Exception` swallows whatever open, json.load or the
\* comprehension raise.
Construct(f) ==
    IF f.kind = "data" /\ \A r \in DOMAIN f.data : Keyed(f.data, r)
    THEN Load(f.data)
    ELSE EmptyFn

\* the backing file found at construction, when one is configured
InitFile == Written([r1 |-> <<[id |-> "i1", a |-> "v1"]>>])

Init ==
    /\ db_file \in BOOLEAN
    /\ file = (IF db_file THEN InitFile ELSE NoFile)
    /\ records = (IF file.kind = "data" THEN Load(file.data) ELSE EmptyFn)
    /\ dirty = FALSE
    /\ data_changed = FALSE
    /\ persist_stop = FALSE
    /\ persist_period_limit = Period
    /\ last_save = -1
    /\ data_lock = "free"
    /\ now = StartTime
    /\ pc = [c \in Clients |-> "idle"]
    /\ op = [c \in Clients |-> NoOp]
    /\ ret = [c \in Clients |-> Raise("none")]
    /\ quota = MaxCalls
    /\ lpc = "loop_test"
    /\ loop_now = -1
    /\ deadline = -1
    /\ iter_size = 0
    /\ iter_todo = <<>>
    /\ snap = EmptyFn
    /\ spc = "idle"
    /\ unsaved = FALSE
    /\ last_write = -1
    /\ last_mut = -1
    /\ burst_start = -1
    /\ burst_writes = 0
    /\ woke_clean = FALSE
    /\ owed = FALSE
    /\ saved = records
    /\ held = [a |-> "v1"]
    /\ alias = {}
    /\ made = NoMade
    /\ gone = {}

\* --------------------------------------------------------- request threads
\* a new request runs in the first thread that is free
FirstFree(c) ==
    \E k \in DOMAIN ClientOrder :
        /\ ClientOrder[k] = c
        /\ pc[c] = "idle"
        /\ \A j \in 1..(k - 1) : pc[ClientOrder[j]] # "idle"

CanCall(c) == FirstFree(c) /\ quota > 0

\* the call fails before it takes the lock
Fail(c, call, e) ==
    /\ pc' = pc
    /\ op' = op
    /\ ret' = [ret EXCEPT ![c] = Raise(e)]

\* the call passed its check and goes on to `with self.data_lock`
Proceed(c, call) ==
    /\ pc' = [pc EXCEPT ![c] = "lock"]
    /\ op' = [op EXCEPT ![c] = call]
    /\ ret' = [ret EXCEPT ![c] = Raise("none")]

\* ids str(uuid.uuid4()) can return: none that is in use
FreshIds == {u \in GenIds :
                /\ \A r \in DOMAIN records : u \notin DOMAIN records[r]
                /\ \A c \in Clients : op[c].record_id # u}

\* create, lines 165-175: id resolution and the duplicate check
CreateCall(c, r, body, rid) ==
    /\ CanCall(c)
    /\ quota' = quota - 1
    /\ LET given == ResolveId(body, rid)
           rec0 == Stamp(body, rid)
       IN  \E i \in (IF Truthy(given) THEN {given} ELSE FreshIds) :
             LET rec == IF Truthy(given) THEN rec0 ELSE Put(rec0, id_field, i)
                 call == [kind |-> "create", resource |-> r,
                          record_id |-> i, record |-> rec]
             IN  IF Has(records, r, i)
                 THEN Fail(c, call, "DuplicateValue")
                 ELSE Proceed(c, call)
    /\ UNCHANGED <<storeVars, loopVars, histVars, now, spc, callerVars>>

\* set, lines 188-194: id resolution, MissingId
SetCall(c, r, body, rid) ==
    /\ CanCall(c)
    /\ quota' = quota - 1
    /\ LET i == ResolveId(body, rid)
           call == [kind |-> "set", resource |-> r, record_id |-> i,
                    record |-> Stamp(body, rid)]
       IN  IF ~Truthy(i) THEN Fail(c, call, "MissingId") ELSE Proceed(c, call)
    /\ UNCHANGED <<storeVars, loopVars, histVars, now, spc, callerVars>>

\* update, lines 206-214: id resolution and the existence check, whose
\* self.records[resource] inserts a missing resource without the lock
UpdateCall(c, r, body, rid) ==
    /\ CanCall(c)
    /\ quota' = quota - 1
    /\ records' = Vivify(records, r)
    /\ LET i == ResolveId(body, rid)
           call == [kind |-> "update", resource |-> r, record_id |-> i,
                    record |-> Stamp(body, rid)]
       IN  IF Has(records, r, i) THEN Proceed(c, call)
           ELSE Fail(c, call, "NotFound")
    /\ UNCHANGED <<dirty, data_changed, persist_stop, persist_period_limit,
                   last_save, data_lock, db_file, file>>
    /\ UNCHANGED <<loopVars, histVars, now, spc, callerVars>>

\* delete, lines 224-229: the existence checks
DeleteCall(c, r, rid) ==
    /\ CanCall(c)
    /\ quota' = quota - 1
    /\ LET call == [kind |-> "delete", resource |-> r, record_id |-> rid,
                    record |-> EmptyFn]
       IN  IF Has(records, r, rid) THEN Proceed(c, call)
           ELSE Fail(c, call, "NotFound")
    /\ UNCHANGED <<storeVars, loopVars, histVars, now, spc, callerVars>>

StoreRecord_prunes(store, call) ==
    LET r == call.resource
        i == call.record_id
        recs == Vivify(store, r)
    IN  CASE call.kind \in {"create", "set"} ->
                 Put(recs, r, Put(recs[r], i, call.record))
          [] call.kind = "update" ->
                 Put(recs, r, Put(recs[r], i, Merge(recs[r][i], call.record)))
          [] call.kind = "delete" ->
                 IF DOMAIN recs[r] = {i} THEN Remove(recs, r)
                 ELSE Put(recs, r, Remove(recs[r], i))

StoreRecord_setmerges(store, call) ==
    LET r == call.resource
        i == call.record_id
        recs == Vivify(store, r)
    IN  CASE call.kind = "create" ->
                 Put(recs, r, Put(recs[r], i, call.record))
          [] call.kind \in {"set", "update"} ->
                 Put(recs, r, Put(recs[r], i,
                        IF i \in DOMAIN recs[r]
                        THEN Merge(recs[r][i], call.record)
                        ELSE call.record))
          [] call.kind = "delete" ->
                 Put(recs, r, Remove(recs[r], i))

\* the store `store` after the write of lines 178, 196, 216, 231
StoreRecord(store, call) ==
    LET r == call.resource
        i == call.record_id
        recs == Vivify(store, r)
    IN  CASE call.kind \in {"create", "set"} ->
                 Put(recs, r, Put(recs[r], i, call.record))
          [] call.kind = "update" ->
                 Put(recs, r, Put(recs[r], i, Merge(recs[r][i], call.record)))
          [] call.kind = "delete" ->
                 Put(recs, r, Remove(recs[r], i))

Written_records(call) == StoreRecord(records, call)

\* history of a mutation applied at time `now`
NoteMutation ==
    /\ unsaved' = TRUE
    /\ last_mut' = now
    /\ IF last_mut # -1 /\ now - last_mut < Period
       THEN UNCHANGED <<burst_start, burst_writes>>
       ELSE burst_start' = now /\ burst_writes' = 0
    /\ UNCHANGED <<last_write, woke_clean, owed, saved>>

LockFree_always == TRUE

\* self.data_lock can be acquired
LockFree == data_lock = "free"

\* lines 177-178, 195-196, 215-216, 230-231: with self.data_lock, and the
\* write of the record
Write(c) ==
    /\ pc[c] = "lock"
    /\ LockFree
    /\ op[c].kind \in {"create", "set"}
          \/ Has(records, op[c].resource, op[c].record_id)
    /\ data_lock' = c
    /\ records' = Written_records(op[c])
    /\ pc' = [pc EXCEPT ![c] = "dirty"]
    /\ NoteMutation
    /\ UNCHANGED <<dirty, data_changed, persist_stop, persist_period_limit,
                   last_save, db_file, file>>
    /\ UNCHANGED <<op, ret, quota, loopVars, now, spc, callerVars>>

\* lines 215-216, 230-231 when the record is gone: KeyError leaves the with
\* block
WriteKeyError(c) ==
    /\ pc[c] = "lock"
    /\ LockFree
    /\ op[c].kind \in {"update", "delete"}
    /\ ~Has(records, op[c].resource, op[c].record_id)
    /\ pc' = [pc EXCEPT ![c] = "idle"]
    /\ ret' = [ret EXCEPT ![c] = Raise("KeyError")]
    /\ op' = [op EXCEPT ![c] = NoOp]
    /\ UNCHANGED <<storeVars, quota, loopVars, histVars, now, spc, callerVars>>

\* self.dirty = True
MarkDirty(c) ==
    /\ pc[c] = "dirty"
    /\ dirty' = TRUE
    /\ pc' = [pc EXCEPT ![c] = "signal"]
    /\ UNCHANGED <<records, data_changed, persist_stop, persist_period_limit,
                   last_save, data_lock, db_file, file>>
    /\ UNCHANGED <<op, ret, quota, loopVars, histVars, now, spc, callerVars>>

\* self.data_changed.set(), the end of the with block, and the return of
\* create (record.copy()), set and delete
Signal(c) ==
    /\ pc[c] = "signal"
    /\ data_changed' = TRUE
    /\ data_lock' = "free"
    /\ IF op[c].kind = "update"
       THEN pc' = [pc EXCEPT ![c] = "ret"] /\ ret' = ret /\ op' = op
       ELSE /\ pc' = [pc EXCEPT ![c] = "idle"]
            /\ ret' = [ret EXCEPT ![c] = Ok(op[c].record)]
            /\ op' = [op EXCEPT ![c] = NoOp]
    /\ UNCHANGED <<records, dirty, persist_stop, persist_period_limit,
                   last_save, db_file, file>>
    /\ UNCHANGED <<quota, loopVars, histVars, now, spc, callerVars>>

\* update, line 220: return self.records[resource][record_id].copy()
UpdateReturn(c) ==
    /\ pc[c] = "ret"
    /\ pc' = [pc EXCEPT ![c] = "idle"]
    /\ ret' = [ret EXCEPT ![c] =
                 IF Has(records, op[c].resource, op[c].record_id)
                 THEN Ok(records[op[c].resource][op[c].record_id])
                 ELSE Raise("KeyError")]
    /\ op' = [op EXCEPT ![c] = NoOp]
    /\ UNCHANGED <<storeVars, quota, loopVars, histVars, now, spc, callerVars>>


\* ------------------------------------------------------ persistence thread
\* line 84: self.persist_stop.is_set()
StopRequested_never == FALSE
StopRequested == persist_stop

\* line 84: while not self.persist_stop.is_set()
LoopTest ==
    /\ lpc = "loop_test"
    /\ lpc' = (IF StopRequested THEN "done" ELSE "wait_change")
    /\ UNCHANGED <<storeVars, clientVars, histVars, now, spc>>
    /\ UNCHANGED <<loop_now, deadline, iter_size, iter_todo, snap>>

\* line 88: now - self.last_save < self.persist_period_limit
TooSoon_never(t) == FALSE
TooSoon_fixed(t) == t - last_save < Period
TooSoon(t) == t - last_save < persist_period_limit

\* lines 85-88: self.data_changed.wait(); now = time();
\*              if now - self.last_save < self.persist_period_limit
WaitChange ==
    /\ lpc = "wait_change"
    /\ data_changed
    /\ IF TooSoon(now)
       THEN lpc' = "debounce_arm" /\ loop_now' = now
       ELSE lpc' = "check_dirty" /\ loop_now' = -1
    /\ UNCHANGED <<storeVars, clientVars, histVars, now, spc>>
    /\ UNCHANGED <<deadline, iter_size, iter_todo, snap>>

\* line 91: self.persist_period_limit + self.last_save - now
Timeout_unset == last_save - loop_now
Timeout == persist_period_limit + last_save - loop_now

\* lines 90-92: the call of persist_stop.wait(limit + last_save - now)
DebounceArm ==
    /\ lpc = "debounce_arm"
    /\ deadline' = now + Timeout
    /\ loop_now' = -1
    /\ lpc' = "debounce"
    /\ UNCHANGED <<storeVars, clientVars, histVars, now, spc>>
    /\ UNCHANGED <<iter_size, iter_todo, snap>>

\* persist_stop.wait returns: the event is set or the timeout has passed
DebounceWake ==
    /\ lpc = "debounce"
    /\ persist_stop \/ now >= deadline
    /\ deadline' = -1
    /\ lpc' = "check_dirty"
    /\ UNCHANGED <<storeVars, clientVars, histVars, now, spc>>
    /\ UNCHANGED <<loop_now, iter_size, iter_todo, snap>>

\* line 95: if self.dirty
IsDirty_always == TRUE
IsDirty == dirty

\* lines 95-105: if self.dirty: self._persist(), up to the early return of
\* _persist when no file is configured
CheckDirty ==
    /\ lpc = "check_dirty"
    /\ woke_clean' = ~dirty
    /\ IF IsDirty
       THEN /\ last_save' = now
            /\ lpc' = (IF db_file THEN "persist_lock" ELSE "loop_test")
       ELSE /\ last_save' = last_save
            /\ lpc' = "loop_test"
    /\ UNCHANGED <<records, dirty, data_changed, persist_stop,
                   persist_period_limit, data_lock, db_file, file>>
    /\ UNCHANGED <<clientVars, now, spc>>
    /\ UNCHANGED <<loop_now, deadline, iter_size, iter_todo, snap>>
    /\ UNCHANGED <<unsaved, last_write, last_mut, burst_start, burst_writes,
                   owed, saved>>

\* line 107: with self.data_lock, self.db_file.open("w+"): the file is
\* truncated when it is opened
PersistLock ==
    /\ lpc = "persist_lock"
    /\ LockFree
    /\ data_lock' = "loop"
    /\ file' = Truncated
    /\ last_write' = now
    /\ lpc' = "persist_clear"
    /\ UNCHANGED <<records, dirty, data_changed, persist_stop,
                   persist_period_limit, last_save, db_file>>
    /\ UNCHANGED <<clientVars, now, spc>>
    /\ UNCHANGED <<loop_now, deadline, iter_size, iter_todo, snap>>
    /\ UNCHANGED <<unsaved, last_mut, burst_start, burst_writes, woke_clean,
                   owed, saved>>

PersistClear_keepsdirty ==
    /\ lpc = "persist_clear"
    /\ data_changed' = FALSE
    /\ iter_size' = Cardinality(DOMAIN records)
    /\ iter_todo' = KeysOf(records)
    /\ snap' = EmptyFn
    /\ lpc' = "persist_iter"
    /\ UNCHANGED <<records, dirty, persist_stop, persist_period_limit,
                   last_save, data_lock, db_file, file>>
    /\ UNCHANGED <<clientVars, histVars, now, spc, loop_now, deadline>>

\* lines 108-114: data_changed.clear(); dirty = False; the comprehension
\* starts to iterate self.records.items()
PersistClear ==
    /\ lpc = "persist_clear"
    /\ data_changed' = FALSE
    /\ dirty' = FALSE
    /\ iter_size' = Cardinality(DOMAIN records)
    /\ iter_todo' = KeysOf(records)
    /\ snap' = EmptyFn
    /\ lpc' = "persist_iter"
    /\ UNCHANGED <<records, persist_stop, persist_period_limit, last_save,
                   data_lock, db_file, file>>
    /\ UNCHANGED <<clientVars, histVars, now, spc, loop_now, deadline>>

\* lines 112-115: one item of the comprehension
PersistIterNext ==
    /\ lpc = "persist_iter"
    /\ Cardinality(DOMAIN records) = iter_size
    /\ iter_todo # <<>>
    /\ snap' = Put(snap, Head(iter_todo), ValuesList(records[Head(iter_todo)]))
    /\ iter_todo' = Tail(iter_todo)
    /\ UNCHANGED <<storeVars, clientVars, histVars, now, spc>>
    /\ UNCHANGED <<lpc, loop_now, deadline, iter_size>>

\* lines 111-118: the iterator is exhausted, json.dump writes the dict, the
\* with block ends
PersistDump ==
    /\ lpc = "persist_iter"
    /\ Cardinality(DOMAIN records) = iter_size
    /\ iter_todo = <<>>
    /\ file' = Written(snap)
    /\ data_lock' = "free"
    /\ lpc' = "loop_test"
    /\ snap' = EmptyFn
    /\ iter_size' = 0
    /\ unsaved' = FALSE
    /\ owed' = FALSE
    /\ saved' = records
    /\ burst_writes' = burst_writes + 1
    /\ UNCHANGED <<records, dirty, data_changed, persist_stop,
                   persist_period_limit, last_save, db_file>>
    /\ UNCHANGED <<clientVars, now, spc, loop_now, deadline, iter_todo>>
    /\ UNCHANGED <<last_write, last_mut, burst_start, woke_clean>>

\* lines 112-115: self.records got a new key while it is iterated:
\* RuntimeError("dictionary changed size during iteration") leaves the with
\* block and ends the thread
PersistCrash ==
    /\ lpc = "persist_iter"
    /\ Cardinality(DOMAIN records) # iter_size
    /\ data_lock' = "free"
    /\ lpc' = "crashed"
    /\ snap' = EmptyFn
    /\ iter_size' = 0
    /\ iter_todo' = <<>>
    /\ UNCHANGED <<records, dirty, data_changed, persist_stop,
                   persist_period_limit, last_save, db_file, file>>
    /\ UNCHANGED <<clientVars, histVars, now, spc, loop_now, deadline>>

\* --------------------------------------------------------------- shutdown
\* line 123: self.persist_period_limit = 0
ShutdownCall ==
    /\ spc = "idle"
    /\ persist_period_limit' = 0
    /\ spc' = "stop"
    /\ owed' = (unsaved /\ \A c \in Clients : pc[c] = "idle")
    /\ UNCHANGED <<records, dirty, data_changed, persist_stop, last_save,
                   data_lock, db_file, file>>
    /\ UNCHANGED <<clientVars, loopVars, now>>
    /\ UNCHANGED <<unsaved, last_write, last_mut, burst_start, burst_writes,
                   woke_clean, saved>>

\* line 124: self.persist_stop.set()
ShutdownStop ==
    /\ spc = "stop"
    /\ persist_stop' = TRUE
    /\ spc' = "signal"
    /\ UNCHANGED <<records, dirty, data_changed, persist_period_limit,
                   last_save, data_lock, db_file, file>>
    /\ UNCHANGED <<clientVars, loopVars, histVars, now>>

ShutdownSignal_flush ==
    /\ spc = "signal"
    /\ data_changed' = TRUE
    /\ spc' = "done"
    /\ file' = (IF db_file THEN Written(Dump(records)) ELSE file)
    /\ UNCHANGED <<records, dirty, persist_stop, persist_period_limit,
                   last_save, data_lock, db_file>>
    /\ UNCHANGED <<clientVars, loopVars, histVars, now>>

\* line 125: self.data_changed.set()
ShutdownSignal ==
    /\ spc = "signal"
    /\ data_changed' = TRUE
    /\ spc' = "done"
    /\ UNCHANGED <<records, dirty, persist_stop, persist_period_limit,
                   last_save, data_lock, db_file, file>>
    /\ UNCHANGED <<clientVars, loopVars, histVars, now>>

\* ------------------------------------------------------------------- time
\* the persistence thread cannot take a step now
LoopBlocked ==
    \/ lpc \in {"done", "crashed"}
    \/ lpc = "wait_change" /\ ~data_changed
    \/ lpc = "debounce" /\ ~persist_stop /\ now < deadline

CanTick ==
    /\ now < MaxTime
    /\ \A c \in Clients : pc[c] = "idle"
    /\ spc \in {"idle", "done"}
    /\ LoopBlocked

Tick ==
    /\ CanTick
    /\ now' = now + 1
    /\ UNCHANGED <<storeVars, clientVars, loopVars, histVars, spc>>

\* ---------------------------------------------------------- specification
Call(c) ==
    \E r \in Resources, rid \in GivenIds :
        \/ \E body \in Bodies :
              \/ CreateCall(c, r, body, rid)
              \/ SetCall(c, r, body, rid)
              \/ UpdateCall(c, r, body, rid)
        \/ DeleteCall(c, r, rid)

ClientStep(c) ==
    \/ Write(c)
    \/ WriteKeyError(c)
    \/ MarkDirty(c)
    \/ Signal(c)
    \/ UpdateReturn(c)

LoopStep ==
    \/ LoopTest
    \/ WaitChange
    \/ DebounceArm
    \/ DebounceWake
    \/ CheckDirty
    \/ PersistLock
    \/ PersistClear
    \/ PersistIterNext
    \/ PersistDump
    \/ PersistCrash

ShutdownStep == ShutdownCall \/ ShutdownStop \/ ShutdownSignal

Next ==
    \/ \E c \in Clients : Call(c)
    \/ \E c \in Clients : ClientStep(c)
    \/ LoopStep
    \/ ShutdownStep
    \/ Tick

Spec == Init /\ [][Next]_vars


\* ------------------------------------------------- whole calls, one caller
\* One thread calls the store, one call at a time; each call is one step.
\* The caller passes either a dict of its own making (body) or the dict `d`
\* it keeps (held), which the store may already hold: create and set store
\* the dict they are given, not a copy of it (lines 178, 196).
Caller == "c1"
CrudIds == {NoId, "", "i1", "i2"}     \* record_id arguments
CrudKeys == {"", "i1", "i2", "u1"}    \* record_id of read and delete
CrudBodies == { [a |-> "v1", b |-> "w1"],
                [a |-> "v2", id |-> "i2"],
                [b |-> "w2", id |-> ""] }

\* self.records after the dict stored at the places `al` has become v
Poke(recs, al, v) ==
    [r \in DOMAIN recs |->
        [i \in DOMAIN recs[r] |->
            IF <<r, i>> \in al THEN v ELSE recs[r][i]]]

\* the call and its result, as the caller sees them
Returns(call, result) ==
    /\ op' = [op EXCEPT ![Caller] = call]
    /\ ret' = [ret EXCEPT ![Caller] = result]
    /\ pc' = pc

\* a call that is to change the store
CanMutate == quota > 0 /\ \A c \in Clients : pc[c] = "idle"

\* what no call of the store touches
CrudFrame ==
    UNCHANGED <<persist_stop, persist_period_limit, last_save, data_lock,
                db_file, file, loopVars, histVars, now, spc>>

\* the record of the last create is no longer the one read back
Forget(r, i) ==
    IF made.live /\ made.resource = r /\ made.record_id = i
    THEN NoMade ELSE made

\* create, lines 163-182
CreateWhole(r, kept, body, rid) ==
    /\ CanMutate
    /\ quota' = quota - 1
    /\ LET rec0 == IF kept THEN held ELSE body
           given == ResolveId(rec0, rid)
           call == [kind |-> "create", resource |-> r, record_id |-> rid,
                    record |-> rec0]
       IN  \E i \in (IF Truthy(given) THEN {given} ELSE FreshIds) :
             LET rec == IF Truthy(given) THEN Stamp(rec0, rid)
                        ELSE Put(rec0, id_field, i)
                 recs == IF kept THEN Poke(records, alias, rec) ELSE records
                 put == [kind |-> "create", resource |-> r, record_id |-> i,
                         record |-> rec]
             IN  /\ held' = (IF kept THEN rec ELSE held)
                 /\ IF Has(recs, r, i)
                    THEN /\ records' = recs
                         /\ Returns(call, Raise("DuplicateValue"))
                         /\ UNCHANGED <<dirty, data_changed, alias, made, gone>>
                    ELSE /\ records' = StoreRecord(recs, put)
                         /\ dirty' = TRUE
                         /\ data_changed' = TRUE
                         /\ alias' = (IF kept THEN alias \cup {<<r, i>>}
                                      ELSE alias)
                         /\ made' = [live |-> TRUE, resource |-> r,
                                     record_id |-> i, record |-> rec0]
                         /\ gone' = gone \ {<<r, i>>}
                         /\ Returns(call, Ok(rec))
    /\ CrudFrame

\* set, lines 184-200
SetWhole(r, kept, body, rid) ==
    /\ CanMutate
    /\ quota' = quota - 1
    /\ LET rec0 == IF kept THEN held ELSE body
           i == ResolveId(rec0, rid)
           rec == Stamp(rec0, rid)
           recs == IF kept THEN Poke(records, alias, rec) ELSE records
           call == [kind |-> "set", resource |-> r, record_id |-> rid,
                    record |-> rec0]
           put == [kind |-> "set", resource |-> r, record_id |-> i,
                   record |-> rec]
       IN  /\ held' = (IF kept THEN rec ELSE held)
           /\ IF ~Truthy(i)
              THEN /\ records' = recs
                   /\ Returns(call, Raise("MissingId"))
                   /\ UNCHANGED <<dirty, data_changed, alias, made, gone>>
              ELSE /\ records' = StoreRecord(recs, put)
                   /\ dirty' = TRUE
                   /\ data_changed' = TRUE
                   /\ alias' = (IF kept THEN alias \cup {<<r, i>>}
                                ELSE alias \ {<<r, i>>})
                   /\ made' = Forget(r, i)
                   /\ gone' = gone \ {<<r, i>>}
                   /\ Returns(call, Ok(rec))
    /\ CrudFrame

\* update, lines 202-220
UpdateWhole(r, kept, body, rid) ==
    /\ CanMutate
    /\ quota' = quota - 1
    /\ LET rec0 == IF kept THEN held ELSE body
           i == ResolveId(rec0, rid)
           rec == Stamp(rec0, rid)
           recs == Vivify(IF kept THEN Poke(records, alias, rec)
                          ELSE records, r)
           call == [kind |-> "update", resource |-> r, record_id |-> rid,
                    record |-> rec0]
           put == [kind |-> "update", resource |-> r, record_id |-> i,
                   record |-> rec]
       IN  IF ~Has(recs, r, i)
           THEN /\ records' = recs
                /\ held' = (IF kept THEN rec ELSE held)
                /\ Returns(call, Raise("NotFound"))
                /\ UNCHANGED <<dirty, data_changed, alias, made, gone>>
           ELSE LET merged == Merge(recs[r][i], rec)
                    shared == <<r, i>> \in alias
                IN  /\ records' = (IF shared THEN Poke(recs, alias, merged)
                                   ELSE StoreRecord(recs, put))
                    /\ held' = (IF shared THEN merged
                                ELSE IF kept THEN rec ELSE held)
                    /\ dirty' = TRUE
                    /\ data_changed' = TRUE
                    /\ made' = Forget(r, i)
                    /\ UNCHANGED <<alias, gone>>
                    /\ Returns(call, Ok(merged))
    /\ CrudFrame

\* delete, lines 222-235
DeleteWhole(r, rid) ==
    /\ CanMutate
    /\ quota' = quota - 1
    /\ LET call == [kind |-> "delete", resource |-> r, record_id |-> rid,
                    record |-> EmptyFn]
       IN  IF ~Has(records, r, rid)
           THEN /\ Returns(call, Raise("NotFound"))
                /\ UNCHANGED <<records, dirty, data_changed, alias, made,
                               gone>>
           ELSE /\ records' = StoreRecord(records, call)
                /\ dirty' = TRUE
                /\ data_changed' = TRUE
                /\ alias' = alias \ {<<r, rid>>}
                /\ made' = Forget(r, rid)
                /\ gone' = gone \cup {<<r, rid>>}
                /\ Returns(call, Ok(EmptyFn))
    /\ held' = held
    /\ CrudFrame

\* read, lines 153-161
read(recs, r, rid) ==
    IF r \notin DOMAIN recs THEN Raise("NotFound")
    ELSE IF rid \notin DOMAIN recs[r] THEN Raise("NotFound")
    ELSE Ok(recs[r][rid])

\* available_resources, line 129: sorted(set(self.records.keys()))
available_resources(recs) == KeysOf(recs)

\* the filters of a list call: callables on a record
ListFilters == { [field |-> "a", value |-> "v1"],
                 [field |-> "b", value |-> "w1"] }
Holds(f, rec) == f.field \in DOMAIN rec /\ rec[f.field] = f.value

\* the fields of a list call: None, or a list of keys
NoFields == [given |-> FALSE, keys |-> {}]
ListFields == { NoFields,
                [given |-> TRUE, keys |-> {}],
                [given |-> TRUE, keys |-> {"a"}],
                [given |-> TRUE, keys |-> {"b", "id"}] }

\* line 146: if fields
Projects(fields) == fields.given /\ fields.keys # {}

\* line 148: {key: value for key, value in record.items() if key in fields}
Project(rec, keys) == [k \in (DOMAIN rec) \cap keys |-> rec[k]]

\* line 145: filter(record_filter, resource_records), for every filter
Filtered(all, filters) ==
    SelectSeq(all, LAMBDA rec : \A f \in filters : Holds(f, rec))

list_resource_strict(recs, r, fields, filters) ==
    IF r \notin DOMAIN recs \/ DOMAIN recs[r] = {} THEN Raise("NotFound")
    ELSE LET found == Filtered(ValuesList(recs[r]), filters)
         IN  Ok([k \in 1..Len(found) |->
                    IF Projects(fields) THEN Project(found[k], fields.keys)
                    ELSE found[k]])

\* list_resource, lines 131-151
list_resource(recs, r, fields, filters) ==
    IF r \notin DOMAIN recs THEN Raise("NotFound")
    ELSE LET found == Filtered(ValuesList(recs[r]), filters)
         IN  Ok([k \in 1..Len(found) |->
                    IF Projects(fields) THEN Project(found[k], fields.keys)
                    ELSE found[k]])

\* the caller changes the dict it keeps: d["a"] = "v2"
CallerChange ==
    /\ \A c \in Clients : pc[c] = "idle"
    /\ "a" \in DOMAIN held
    /\ held["a"] # "v2"
    /\ held' = Put(held, "a", "v2")
    /\ records' = Poke(records, alias, held')
    /\ Returns([kind |-> "change", resource |-> "r1", record_id |-> NoId,
                record |-> held], Raise("none"))
    /\ UNCHANGED <<dirty, data_changed, quota, alias, made, gone>>
    /\ CrudFrame

CrudNext ==
    \/ \E r \in Resources, rid \in CrudIds :
          \/ \E body \in CrudBodies :
                \/ CreateWhole(r, FALSE, body, rid)
                \/ SetWhole(r, FALSE, body, rid)
                \/ UpdateWhole(r, FALSE, body, rid)
          \/ CreateWhole(r, TRUE, held, rid)
          \/ SetWhole(r, TRUE, held, rid)
          \/ UpdateWhole(r, TRUE, held, rid)
    \/ \E r \in Resources, rid \in CrudKeys : DeleteWhole(r, rid)
    \/ CallerChange

CrudSpec == Init /\ [][CrudNext]_vars

\* ------------------------------------------- construction on any file
\* backing files the constructor can be given: none there, a directory, one
\* it may not open, one that is not JSON, an empty one, one with a record
\* that has no id field after a resource that loads, the same with the
\* resources the other way round, and two that load
HalfKeyed == Written([r1 |-> <<[id |-> "i1", a |-> "v1"]>>,
                      r2 |-> <<[id |-> "i2", a |-> "v1"], [a |-> "v2"]>>])
HalfKeyedFirst == Written([r1 |-> <<[a |-> "v2"]>>,
                           r2 |-> <<[id |-> "i2", a |-> "v1"]>>])
TwoResources == Written([r1 |-> <<[id |-> "i1", a |-> "v1"]>>,
                         r2 |-> <<>>])
LoadFiles == {NoFile, Directory, Unreadable, Malformed, Truncated,
              HalfKeyed, HalfKeyedFirst, InitFile, TwoResources}

\* the state after JsonDatabase(db_file) on one of `files`, with `calls`
\* calls to come
Started(files, calls) ==
    /\ db_file = TRUE
    /\ file \in files
    /\ records = Construct(file)
    /\ dirty = FALSE
    /\ data_changed = FALSE
    /\ persist_stop = FALSE
    /\ persist_period_limit = Period
    /\ last_save = -1
    /\ data_lock = "free"
    /\ now = StartTime
    /\ pc = [c \in Clients |-> "idle"]
    /\ op = [c \in Clients |-> NoOp]
    /\ ret = [c \in Clients |-> Raise("none")]
    /\ quota = calls
    /\ lpc = "loop_test"
    /\ loop_now = -1
    /\ deadline = -1
    /\ iter_size = 0
    /\ iter_todo = <<>>
    /\ snap = EmptyFn
    /\ spc = "idle"
    /\ unsaved = FALSE
    /\ last_write = -1
    /\ last_mut = -1
    /\ burst_start = -1
    /\ burst_writes = 0
    /\ woke_clean = FALSE
    /\ owed = FALSE
    /\ saved = records
    /\ held = [a |-> "v1"]
    /\ alias = {}
    /\ made = NoMade
    /\ gone = {}

LoadInit == Started(LoadFiles, MaxCalls - 1)

LoadSpec == LoadInit /\ [][CrudNext]_vars

\* ------------------------------------- shutdown during the debounce wait
\* The threads on a store loaded from InitFile, with one call more than
\* MaxCalls (a write, a second one that starts the debounce wait, a third
\* during the last write), update and delete only.  The clock stands still:
\* a debounce wait ends by shutdown() alone.
ShutCall(c) ==
    \E r \in Resources, rid \in GivenIds :
        \/ \E body \in Bodies : UpdateCall(c, r, body, rid)
        \/ DeleteCall(c, r, rid)

ShutNext ==
    \/ \E c \in Clients : ShutCall(c)
    \/ \E c \in Clients : ClientStep(c)
    \/ LoopStep
    \/ ShutdownStep

ShutSpec ==
    /\ Started({InitFile}, MaxCalls + 1)
    /\ [][ShutNext]_vars
    /\ WF_vars(LoopStep)
    /\ \A c \in Clients : WF_vars(ClientStep(c))


\* ------------------------------------------------- query filters
\* data_filters.py.  A str is the sequence of its characters; a field value
\* is what the filters use of it: whether it is true (`and rec[param]`) and
\* its str().
WILD_CARD == <<"*">>

\* str.casefold, on the letters that occur
Fold(ch) ==
    CASE ch = "A" -> "a" [] ch = "B" -> "b" [] ch = "E" -> "e"
      [] ch = "F" -> "f" [] ch = "N" -> "n" [] OTHER -> ch
casefold(s) == [k \in 1..Len(s) |-> Fold(s[k])]

startswith(s, t) == Len(t) <= Len(s) /\ SubSeq(s, 1, Len(t)) = t
endswith(s, t) ==
    Len(t) <= Len(s) /\ SubSeq(s, Len(s) - Len(t) + 1, Len(s)) = t
\* t in s
contains(s, t) ==
    \E k \in 0..(Len(s) - Len(t)) : SubSeq(s, k + 1, k + Len(t)) = t

\* the character is one of those of `chars`
OneOf(ch, chars) == \E k \in DOMAIN chars : chars[k] = ch

RECURSIVE lstrip(_, _)
lstrip(s, chars) ==
    IF s # <<>> /\ OneOf(Head(s), chars) THEN lstrip(Tail(s), chars) ELSE s

RECURSIVE rstrip(_, _)
rstrip(s, chars) ==
    IF s # <<>> /\ OneOf(s[Len(s)], chars)
    THEN rstrip(SubSeq(s, 1, Len(s) - 1), chars)
    ELSE s

strip(s, chars) == rstrip(lstrip(s, chars), chars)

\* field values: a str, and 0, None and False
StrValue(s) == [truthy |-> s # <<>>, text |-> s]
Zero == [truthy |-> FALSE, text |-> <<"0">>]
NoneValue == [truthy |-> FALSE, text |-> <<"N", "o", "n", "e">>]
FalseValue == [truthy |-> FALSE, text |-> <<"F", "a", "l", "s", "e">>]

\* _record_param_equals_value(param, search)(rec)
record_param_equals_value(param, search, rec) ==
    /\ param \in DOMAIN rec
    /\ casefold(search) = casefold(rec[param].text)

\* _record_param_contains_value(param, search)(rec)
record_param_contains_value(param, search, rec) ==
    /\ param \in DOMAIN rec
    /\ contains(casefold(rec[param].text), casefold(search))

record_param_startswith_value_unguarded(param, search, rec) ==
    /\ param \in DOMAIN rec
    /\ startswith(casefold(rec[param].text), casefold(search))

\* _record_param_startswith_value(param, search)(rec)
record_param_startswith_value(param, search, rec) ==
    /\ param \in DOMAIN rec
    /\ rec[param].truthy
    /\ startswith(casefold(rec[param].text), casefold(search))

\* _record_param_endswith_value(param, search)(rec)
record_param_endswith_value(param, search, rec) ==
    /\ param \in DOMAIN rec
    /\ rec[param].truthy
    /\ endswith(casefold(rec[param].text), casefold(search))

build_query_filter_swapped(param, value, wild_card) ==
    IF startswith(value, wild_card)
    THEN IF endswith(value, wild_card)
         THEN [mode |-> "contains", param |-> param,
               search |-> strip(value, wild_card)]
         ELSE [mode |-> "startswith", param |-> param,
               search |-> lstrip(value, wild_card)]
    ELSE IF endswith(value, wild_card)
         THEN [mode |-> "endswith", param |-> param,
               search |-> rstrip(value, wild_card)]
         ELSE [mode |-> "equals", param |-> param, search |-> value]

\* build_query_filter: the filter function chosen and its `search`
build_query_filter(param, value, wild_card) ==
    IF startswith(value, wild_card)
    THEN IF endswith(value, wild_card)
         THEN [mode |-> "contains", param |-> param,
               search |-> strip(value, wild_card)]
         ELSE [mode |-> "endswith", param |-> param,
               search |-> lstrip(value, wild_card)]
    ELSE IF endswith(value, wild_card)
         THEN [mode |-> "startswith", param |-> param,
               search |-> rstrip(value, wild_card)]
         ELSE [mode |-> "equals", param |-> param, search |-> value]

\* the filter applied to a record: whether filter() keeps the record
Matches(f, rec) ==
    CASE f.mode = "contains" ->
            record_param_contains_value(f.param, f.search, rec)
      [] f.mode = "endswith" ->
            record_param_endswith_value(f.param, f.search, rec)
      [] f.mode = "startswith" ->
            record_param_startswith_value(f.param, f.search, rec)
      [] OTHER -> record_param_equals_value(f.param, f.search, rec)

Alice == <<"A", "l", "i", "c", "e">>
Bob == <<"B", "o", "b">>
FilterRecords ==
    { [name |-> StrValue(Alice)], [name |-> StrValue(Bob)],
      [name |-> StrValue(<<>>)], [name |-> Zero], [name |-> NoneValue],
      [name |-> FalseValue], [nick |-> StrValue(Alice)] }

\* values of the query parameter
Patterns ==
    { <<"A", "*">>, <<"*", "l", "i", "*">>, <<"a", "l", "i", "c", "e">>,
      <<"*", "o", "b">>, <<"*">>, <<>>, <<"0">>, <<"0", "*">>,
      <<"*", "0">>, <<"n", "o", "n", "e">>, <<"*", "E">>,
      <<"*", "*", "b", "*">>, <<"a", "*", "e">>, <<"b", "*", "*">>,
      <<"*", "*", "S", "E">>, <<"f", "*">> }

\* GET /resource?name=value on one record: the filter is built and applied
FilterCall(param, value, rec) ==
    /\ \A c \in Clients : pc[c] = "idle"
    /\ op' = [op EXCEPT ![Caller] =
                 [kind |-> "filter", resource |-> "r1", record_id |-> NoId,
                  record |-> rec, param |-> param, value |-> value]]
    /\ ret' = [ret EXCEPT ![Caller] =
                 Ok(Matches(build_query_filter(param, value, WILD_CARD),
                            rec))]
    /\ UNCHANGED <<storeVars, pc, quota, callerVars, loopVars, histVars,
                   now, spc>>

FilterNext ==
    \E value \in Patterns, rec \in FilterRecords :
        FilterCall("name", value, rec)

FilterSpec == Init /\ [][FilterNext]_vars

\* ------------------------------------------------- GET /resource?query
\* server.py, respond_get and generate_search_filters.  query_params is the
\* dict of parse_qs, in the order of its keys: parameter -> list of values.
FIELD_QUERY_PARAM == "_f"

\* the key of a record that a str names
Key(s) ==
    CASE s = <<"n", "a", "m", "e">> -> "name"
      [] s = <<"n", "i", "c", "k">> -> "nick"
      [] OTHER -> "other"

RECURSIVE generate_search_filters_all(_)
generate_search_filters_all(query_params) ==
    IF query_params = <<>> THEN <<>>
    ELSE LET param == Head(query_params).param
             values == Head(query_params).values
         IN  [k \in 1..Len(values) |->
                 build_query_filter(param, values[k], WILD_CARD)]
               \o generate_search_filters_all(Tail(query_params))

\* generate_search_filters: one filter for every value of every parameter
\* but _f
RECURSIVE generate_search_filters(_)
generate_search_filters(query_params) ==
    IF query_params = <<>> THEN <<>>
    ELSE LET param == Head(query_params).param
             values == Head(query_params).values
         IN  (IF param = FIELD_QUERY_PARAM THEN <<>>
              ELSE [k \in 1..Len(values) |->
                      build_query_filter(param, values[k], WILD_CARD)])
               \o generate_search_filters(Tail(query_params))

\* query_params[FIELD_QUERY_PARAM] if the parameter is there, else None (<<>>)
QueryFields(query_params) ==
    LET at == {k \in DOMAIN query_params :
                  query_params[k].param = FIELD_QUERY_PARAM}
    IN  IF at = {} THEN <<>> ELSE query_params[CHOOSE k \in at : TRUE].values

\* list_resource, lines 141-151, on the records `all` of the resource:
\* every filter in turn, then the projection on `fields` when there are any
ListRecords(all, fields, filters) ==
    LET found == SelectSeq(all, LAMBDA rec :
                     \A k \in DOMAIN filters : Matches(filters[k], rec))
        keys == {Key(fields[k]) : k \in DOMAIN fields}
    IN  [k \in 1..Len(found) |->
            IF fields # <<>>
            THEN [key \in (DOMAIN found[k]) \cap keys |-> found[k][key]]
            ELSE found[k]]

\* the records of the resource that is listed
People == << [name |-> StrValue(Alice)], [name |-> StrValue(Bob)],
             [nick |-> StrValue(Alice)], [name |-> Zero],
             [name |-> StrValue(Bob), nick |-> StrValue(Alice)] >>

\* values of name= in one query
QueryPatterns ==
    { <<"A", "*">>, <<"*", "e">>, <<"*", "l", "i", "*">>, <<"*", "o", "b">>,
      <<"b", "*">>, <<"*">> }
NameValues ==
    {<<>>} \cup {<<v>> : v \in QueryPatterns}
           \cup {<<v, w>> : v \in QueryPatterns, w \in QueryPatterns}
\* values of _f= in one query
FieldValues == { <<>>, << <<"n", "a", "m", "e">> >>,
                 << <<"n", "i", "c", "k">> >> }

\* the dict parse_qs returns for ?_f=...&name=...&name=...
QueryParams(fields, names) ==
    (IF fields = <<>> THEN <<>>
     ELSE << [param |-> FIELD_QUERY_PARAM, values |-> fields] >>)
    \o (IF names = <<>> THEN <<>>
        ELSE << [param |-> "name", values |-> names] >>)

\* respond_get, lines 243-257: GET /resource?query
QueryCall(fields, names) ==
    /\ \A c \in Clients : pc[c] = "idle"
    /\ LET query_params == QueryParams(fields, names)
           query_fields == QueryFields(query_params)
           query_filters == generate_search_filters(query_params)
       IN  /\ op' = [op EXCEPT ![Caller] =
                        [kind |-> "query", resource |-> "r1",
                         record_id |-> NoId, record |-> EmptyFn,
                         fields |-> fields, names |-> names]]
           /\ ret' = [ret EXCEPT ![Caller] =
                        Ok(ListRecords(People, query_fields, query_filters))]
    /\ UNCHANGED <<storeVars, pc, quota, callerVars, loopVars, histVars,
                   now, spc>>

QueryNext ==
    \E fields \in FieldValues, names \in NameValues : QueryCall(fields, names)

QuerySpec == Init /\ [][QueryNext]_vars

\* ----------------------------------------------- reads beside the threads
\* The threads of Spec, which now also call read, list_resource and
\* available_resources.  The body of a read is one step.
Subscripted_unchecked(recs, call) ==
    IF call.kind \in {"read", "list"} THEN Vivify(recs, call.resource)
    ELSE recs

\* self.records after the body of a read: read and list_resource evaluate
\* self.records[resource] (lines 141, 157, 161) only once
\* `resource not in self.records` (139, 155) was false
Subscripted(recs, call) ==
    IF call.kind \in {"read", "list"} /\ call.resource \in DOMAIN recs
    THEN Vivify(recs, call.resource)
    ELSE recs

ReadCalls ==
    { [kind |-> "read", resource |-> r, record_id |-> i, record |-> EmptyFn,
       fields |-> NoFields, filters |-> {}] :
          r \in {"r1"}, i \in GivenIds }
    \cup
    { [kind |-> "list", resource |-> r, record_id |-> NoId,
       record |-> EmptyFn, fields |-> [given |-> TRUE, keys |-> {"a"}],
       filters |-> {[field |-> "a", value |-> "v1"]}] :
          r \in {"r2"} }
    \cup
    { [kind |-> "available", resource |-> "r1", record_id |-> NoId,
       record |-> EmptyFn, fields |-> NoFields, filters |-> {}] }

\* the thread enters read, list_resource or available_resources
ReadCall(c, call) ==
    /\ CanCall(c)
    /\ quota' = quota - 1
    /\ pc' = [pc EXCEPT ![c] = "read"]
    /\ op' = [op EXCEPT ![c] = call]
    /\ ret' = [ret EXCEPT ![c] = Raise("none")]
    /\ UNCHANGED <<storeVars, loopVars, histVars, now, spc, callerVars>>

\* lines 129, 139-151, 155-161: the body of the call and its return
ReadBody(c) ==
    /\ pc[c] = "read"
    /\ records' = Subscripted(records, op[c])
    /\ ret' = [ret EXCEPT ![c] =
                 CASE op[c].kind = "read" ->
                        read(records, op[c].resource, op[c].record_id)
                   [] op[c].kind = "list" ->
                        list_resource(records, op[c].resource, op[c].fields,
                                      op[c].filters)
                   [] OTHER -> Ok(available_resources(records))]
    /\ pc' = [pc EXCEPT ![c] = "idle"]
    /\ op' = [op EXCEPT ![c] = NoOp]
    /\ UNCHANGED <<dirty, data_changed, persist_stop, persist_period_limit,
                   last_save, data_lock, db_file, file>>
    /\ UNCHANGED <<quota, loopVars, histVars, now, spc, callerVars>>

ReadNext ==
    \/ \E c \in Clients : Call(c)
    \/ \E c \in Clients : ClientStep(c)
    \/ \E c \in Clients, call \in ReadCalls : ReadCall(c, call)
    \/ \E c \in Clients : ReadBody(c)
    \/ LoopStep
    \/ ShutdownStep
    \/ Tick

ReadSpec == Init /\ [][ReadNext]_vars

\* ------------------------------------------------------------------ claims
Max(a, b) == IF a >= b THEN a ELSE b
Ended == {"done", "crashed"}
Checked == {"create", "update", "delete"}

\* C1: for create, update and delete the existence check and the write are
\* one critical section: no call writes a record while another call is
\* between its check and its write.
C1_CheckThenWriteAtomic ==
    [][\A c, d \in Clients :
          (c # d /\ pc[c] = "lock" /\ op[c].kind \in Checked)
             => ~(pc[d] = "lock" /\ pc'[d] = "dirty")]_vars

\* C2: concurrent mutating calls behave as in some sequential order; so a
\* create succeeds only on an id that its resource does not hold at the
\* instant of its write (of two concurrent creates of one id, one fails).
C2_CreateNeverOverwrites ==
    [][\A c \in Clients :
          (pc[c] = "lock" /\ pc'[c] = "dirty" /\ op[c].kind = "create")
             => ~Has(records, op[c].resource, op[c].record_id)]_vars

\* C3: with a backing file and no shutdown requested, a mutation is written
\* no later than min_period after the preceding write, and at once when that
\* time has passed: the clock never passes that instant with the mutation
\* still unwritten.
C3_FlushedInTime ==
    (db_file /\ spc = "idle" /\ unsaved)
        => now <= Max(last_mut, last_write + Period)

\* C4: while no shutdown is requested, a write of the backing file begins at
\* least min_period after the write before it.
C4_WritesAPeriodApart ==
    [][(lpc = "persist_lock" /\ lpc' = "persist_clear" /\ spc = "idle"
           /\ last_write # -1)
          => now - last_write >= Period]_vars

C4_Witness ==
    /\ spc = "idle"
    /\ burst_writes >= 2
    /\ file.kind = "data"
    /\ last_write >= StartTime + Period

\* C5 (as stated): the mutations of one burst, each less than min_period
\* after the previous one, are written by exactly one write.
C5_OneWritePerBurst == spc = "idle" => burst_writes <= 1

\* C5 (amended): while no shutdown is requested, the k-th write of a burst
\* begins no earlier than (k - 1) * min_period after the first mutation of
\* the burst: one write at once when min_period has passed since last_save,
\* then at most one per min_period.
C5_BurstWritesBounded ==
    (spc = "idle" /\ burst_writes >= 1)
        => (burst_writes - 1) * Period <= last_write - burst_start

C5_Witness ==
    /\ spc = "idle"
    /\ burst_writes = 2
    /\ last_mut - burst_start < Period
    /\ ~unsaved

\* C6: when data_lock is free, dirty is true exactly when a mutation has
\* been applied since the last completed write of the file (or startup).
C6_DirtyIffUnsaved == data_lock = "free" => (dirty <=> unsaved)

\* C7: the file is written only when a mutation has occurred since the last
\* write, and a wake-up that finds dirty false goes back to the loop test
\* without touching the file.
C7_NoRedundantWrite ==
    [][/\ file' # file => unsaved
       /\ (lpc = "check_dirty" /\ ~dirty)
             => (file' = file /\ lpc' \in {"check_dirty", "loop_test"})]_vars

C7_Witness ==
    /\ woke_clean
    /\ lpc \in {"loop_test", "done"}
    /\ last_write # -1
    /\ file = Written(Dump(saved))

\* C8: once the file has been written, its content is the complete store as
\* it was at one instant (outside the moment a write is in progress).
C8_FileIsASnapshot ==
    (last_write # -1 /\ lpc \notin {"persist_clear", "persist_iter"})
        => file = Written(Dump(saved))

\* C9: once shutdown() has set the stop flag and the change signal, the
\* persistence loop ends.
C9_LoopEndsAfterShutdown == (spc = "done") ~> (lpc \in Ended)

C9_Witness == spc = "done" /\ lpc = "done"

\* C10: when the loop has ended after shutdown(), the file holds every
\* mutation that completed before shutdown() was called.
C10_DurableShutdown == (db_file /\ lpc = "done") => ~owed

\* The runs within one instant of the clock, with the scheduling of the
\* threads: a thread that can take a step eventually takes one.  No wait of
\* the loop times out here; a wait ends by an event or not at all.
LiveNext ==
    \/ \E c \in Clients : Call(c)
    \/ \E c \in Clients : ClientStep(c)
    \/ LoopStep
    \/ ShutdownStep

LiveSpec ==
    /\ Init
    /\ [][LiveNext]_vars
    /\ WF_vars(LoopStep)
    /\ \A c \in Clients : WF_vars(ClientStep(c))

\* ------------------------------------------- claims on the calls (CrudSpec)
\* C11: every stored record holds, in its id field, the key under which it is
\* stored in its resource (a resource is a dict: one record per key).
C11_IdIsKey ==
    \A r \in DOMAIN records : \A i \in DOMAIN records[r] :
        /\ id_field \in DOMAIN records[r][i]
        /\ records[r][i][id_field] = i

\* the step is a call of `kind` by the caller
Called(kind) == quota' = quota - 1 /\ op'[Caller].kind = kind

\* the id that the call's arguments resolve to (before any id is generated)
Resolved(call) == ResolveId(call.record, call.record_id)

\* C12: a create whose resolved id is already in the resource fails with
\* DuplicateValue and leaves the records of every resource, the dirty flag
\* and the change signal as they were.
C12_DuplicateChangesNothing ==
    [][(/\ Called("create")
        /\ Has(records, op'[Caller].resource, Resolved(op'[Caller])))
          => /\ ret'[Caller] = Raise("DuplicateValue")
             /\ records' = records
             /\ dirty' = dirty
             /\ data_changed' = data_changed]_vars

\* C13: after a successful create, and until a later call writes or deletes
\* its id, read with the returned id yields the record that was passed in
\* plus the id field set to that id.
C13_CreateThenRead ==
    made.live =>
        read(records, made.resource, made.record_id)
            = Ok(Put(made.record, id_field, made.record_id))

\* the step is a call of `kind` that succeeded
Succeeded(kind) == Called(kind) /\ ret'[Caller].status = "ok"

\* the record is stored under the id `i`, which its id field holds
StoredUnder(call, i) ==
    /\ Has(records', call.resource, i)
    /\ records'[call.resource][i] = Put(call.record, id_field, i)
    /\ ret'[Caller].value = Put(call.record, id_field, i)

\* C14 (as stated): create uses the id argument whenever one is given, else
\* the id of the body whenever the body has one, else a generated id that is
\* not in the resource; the record is stored under that id.
C14_GivenIdFirst ==
    [][Succeeded("create") =>
          LET call == op'[Caller]
              rid == call.record_id
              body == call.record
          IN  IF rid # NoId THEN StoredUnder(call, rid)
              ELSE IF id_field \in DOMAIN body
                   THEN StoredUnder(call, body[id_field])
              ELSE \E u \in GenIds :
                      ~Has(records, call.resource, u) /\ StoredUnder(call, u)
       ]_vars

\* C14 (amended): an id that is None or empty counts as not given: create
\* uses a non-empty id argument, else a non-empty id of the body, else a
\* generated id that is not in the resource; the record is stored under that
\* id, which is written into its id field.
C14_NonEmptyIdFirst ==
    [][Succeeded("create") =>
          LET call == op'[Caller]
              rid == call.record_id
              body == call.record
          IN  IF Truthy(rid) THEN StoredUnder(call, rid)
              ELSE IF id_field \in DOMAIN body /\ Truthy(body[id_field])
                   THEN StoredUnder(call, body[id_field])
              ELSE \E u \in GenIds :
                      ~Has(records, call.resource, u) /\ StoredUnder(call, u)
       ]_vars

C14_Witness ==
    /\ op[Caller].kind = "create"
    /\ op[Caller].record_id = ""
    /\ id_field \in DOMAIN op[Caller].record
    /\ ret[Caller].status = "ok"
    /\ ret[Caller].value[id_field] \in GenIds
    /\ Has(records, op[Caller].resource, ret[Caller].value[id_field])

\* C15: set stores the record it is given (with the id stamped) under the
\* resolved id, whether or not the id is in the resource, and nothing of the
\* record that was there remains; when the argument and the body resolve to
\* no id (None or empty) it fails with MissingId and changes neither the
\* records, nor the dirty flag, nor the change signal.
C15_SetReplaces ==
    [][Called("set") =>
          LET call == op'[Caller]
              r == call.resource
              i == Resolved(call)
          IN  IF Truthy(i)
              THEN /\ ret'[Caller] = Ok(Stamp(call.record, call.record_id))
                   /\ Has(records', r, i)
                   /\ records'[r][i] = Stamp(call.record, call.record_id)
                   /\ dirty' /\ data_changed'
              ELSE /\ ret'[Caller] = Raise("MissingId")
                   /\ records' = records
                   /\ dirty' = dirty
                   /\ data_changed' = data_changed
       ]_vars

\* the first call replaced the record r1/i1 of the loaded file, whose field
\* `a` is gone
C15_Witness ==
    /\ db_file
    /\ quota = MaxCalls - 1
    /\ op[Caller].kind = "set"
    /\ op[Caller].resource = "r1"
    /\ Resolved(op[Caller]) = "i1"
    /\ ret[Caller].status = "ok"
    /\ "a" \notin DOMAIN records["r1"]["i1"]

\* the ids of every resource are those of before the step (a resource that
\* is new holds none)
SameIds ==
    \A r \in DOMAIN records' :
        DOMAIN records'[r] =
            (IF r \in DOMAIN records THEN DOMAIN records[r] ELSE {})

\* C16: update of an id that is in the resource sets the fields of the given
\* record (with the id stamped), keeps every other field of the stored
\* record as it was and returns the merged record; update of an id that is
\* not in the resource fails with NotFound and stores no record.
C16_UpdateMerges ==
    [][Called("update") =>
          LET call == op'[Caller]
              r == call.resource
              i == Resolved(call)
              given == Stamp(call.record, call.record_id)
          IN  IF Has(records, r, i)
              THEN LET old == records[r][i]
                       new == records'[r][i]
                   IN  /\ ret'[Caller] = Ok(new)
                       /\ DOMAIN new = (DOMAIN old) \cup (DOMAIN given)
                       /\ \A k \in DOMAIN given : new[k] = given[k]
                       /\ \A k \in (DOMAIN old) \ (DOMAIN given) :
                             new[k] = old[k]
                       /\ SameIds
              ELSE /\ ret'[Caller] = Raise("NotFound")
                   /\ SameIds
       ]_vars

\* the first call updated the record r1/i1 of the loaded file with a record
\* that has no field `a`: `a` is kept, `b` is new
C16_Witness ==
    /\ db_file
    /\ quota = MaxCalls - 1
    /\ op[Caller].kind = "update"
    /\ "a" \notin DOMAIN op[Caller].record
    /\ ret[Caller].status = "ok"
    /\ ret[Caller].value = [a |-> "v1", b |-> "w2", id |-> "i1"]
    /\ records["r1"]["i1"] = ret[Caller].value

\* C17: delete of an id that is in the resource removes that record and
\* leaves every other record as it was; delete of an unknown resource or of
\* an id that is not in the resource fails with NotFound and changes
\* nothing; read of a deleted id fails with NotFound until the id is
\* inserted again.
C17_DeleteRemovesOne ==
    [][/\ \A place \in gone' :
             read(records', place[1], place[2]) = Raise("NotFound")
       /\ Called("delete") =>
          LET call == op'[Caller]
              r == call.resource
              i == call.record_id
          IN  IF Has(records, r, i)
              THEN /\ ret'[Caller].status = "ok"
                   /\ DOMAIN records' = DOMAIN records
                   /\ DOMAIN records'[r] = (DOMAIN records[r]) \ {i}
                   /\ \A q \in DOMAIN records : \A j \in DOMAIN records'[q] :
                         records'[q][j] = records[q][j]
                   /\ read(records', r, i) = Raise("NotFound")
              ELSE /\ ret'[Caller] = Raise("NotFound")
                   /\ records' = records
                   /\ dirty' = dirty
                   /\ data_changed' = data_changed
       ]_vars

\* a record of r1 was deleted and another record of r1 is still there
C17_Witness ==
    /\ op[Caller].kind = "delete"
    /\ op[Caller].resource = "r1"
    /\ ret[Caller].status = "ok"
    /\ <<"r1", op[Caller].record_id>> \in gone
    /\ read(records, "r1", op[Caller].record_id) = Raise("NotFound")
    /\ DOMAIN records["r1"] # {}

\* C18: available_resources() returns the names of the resources that hold
\* at least one record, and no other name.
C18_AvailableHoldRecords ==
    \A r \in Resources :
        (\E k \in DOMAIN available_resources(records) :
              available_resources(records)[k] = r)
            <=> (r \in DOMAIN records /\ DOMAIN records[r] # {})

\* the resource holds a record, or held one that was deleted
Known(r) ==
    \/ r \in DOMAIN records /\ DOMAIN records[r] # {}
    \/ \E place \in gone : place[1] = r

\* the ids of the records of r that satisfy every filter
Matching(r, filters) ==
    {i \in DOMAIN records[r] : \A f \in filters : Holds(f, records[r][i])}

\* C19: list of a resource that never held a record fails with NotFound; of
\* any other resource it returns the records that satisfy every filter, one
\* for each, and no other; when fields names keys, each returned record has
\* exactly the keys of the stored record that fields names (the id field
\* only if it is named).
C19_ListFiltersAndProjects ==
    \A r \in Resources, fields \in ListFields, filters \in SUBSET ListFilters :
        LET res == list_resource(records, r, fields, filters)
        IN  IF ~Known(r) THEN res = Raise("NotFound")
            ELSE /\ res.status = "ok"
                 /\ Len(res.value) = Cardinality(Matching(r, filters))
                 /\ {res.value[k] : k \in DOMAIN res.value}
                      = { IF fields.keys # {}
                          THEN [key \in (DOMAIN records[r][i]) \cap fields.keys
                                  |-> records[r][i][key]]
                          ELSE records[r][i] : i \in Matching(r, filters) }

\* C20: the store shares no record with its caller: when the caller changes
\* a dict it has passed to create or set, every read and every list returns
\* what it returned before the change.
C20_CallerChangeUnseen ==
    [][op'[Caller].kind = "change" =>
          /\ \A r \in Resources, rid \in CrudKeys :
                read(records', r, rid) = read(records, r, rid)
          /\ \A r \in Resources :
                list_resource(records', r, NoFields, {})
                    = list_resource(records, r, NoFields, {})
       ]_vars

\* ------------------------------------- claims on the file and construction
\* C21: for every state of the records that calls of create, set, update and
\* delete reach, writing the snapshot and constructing a fresh store on that
\* file yields the same resources and, in each, the same records under the
\* same ids.
C21_SaveThenLoad == Construct(Written(Dump(records))) = records

\* the file is not there, is not a file, cannot be opened, is not JSON, or
\* has a record without the id field
Broken(f) ==
    \/ f.kind # "data"
    \/ \E r \in DOMAIN f.data : \E k \in DOMAIN f.data[r] :
          id_field \notin DOMAIN f.data[r][k]

\* no call has been made on the store since its construction
JustBuilt == quota = MaxCalls - 1 /\ op[Caller].kind = "none"

\* C22: constructed on a backing file that is missing, not a file,
\* unreadable, malformed or holds a record without the id field, the store
\* starts with no resource at all and with dirty false.
C22_BrokenFileEmptyStore ==
    (JustBuilt /\ Broken(file)) => (records = EmptyFn /\ ~dirty)

C22_Witness ==
    /\ JustBuilt
    /\ file.kind = "data"
    /\ DOMAIN file.data = {"r1", "r2"}
    /\ Keyed(file.data, "r1") /\ file.data["r1"] # <<>>
    /\ ~Keyed(file.data, "r2")
    /\ records = EmptyFn

\* ------------------------------------------------ claims on query filters
FirstStar(p) == p # <<>> /\ Head(p) = "*"
LastStar(p) == p # <<>> /\ p[Len(p)] = "*"
\* the pattern without the wildcards at its ends, case folded
Core(p) == casefold(strip(p, <<"*">>))

C24_AbsentAndFalsy ==
    LET call == op[Caller]
        hit == ret[Caller].value
    IN  call.kind = "filter" =>
          LET p == call.value
              rec == call.record
          IN  IF call.param \notin DOMAIN rec THEN hit = FALSE
              ELSE LET v == rec[call.param]
                       text == casefold(v.text)
                   IN  ~v.truthy =>
                         IF FirstStar(p) /\ LastStar(p)
                         THEN hit = contains(text, Core(p))
                         ELSE IF FirstStar(p) \/ LastStar(p)
                         THEN hit = FALSE
                         ELSE hit = (text = casefold(p))

C24_Witness ==
    /\ op[Caller].kind = "filter"
    /\ op[Caller].value = <<"0", "*">>
    /\ op[Caller].record = [name |-> Zero]
    /\ ret[Caller] = Ok(FALSE)

C26_OnlyStoreErrors ==
    \A c \in Clients :
        ret[c].status \in {"none", "ok", "NotFound", "DuplicateValue",
                           "MissingId"}

\* C27: the backing file is written by the persistence loop alone: a step
\* that changes the file is a step of _persist, not of create, set, update,
\* delete or shutdown(), and once the persistence loop has ended the file
\* never changes again.
C27_OnlyLoopWrites ==
    [][/\ file' # file =>
            /\ lpc \in {"persist_lock", "persist_iter"}
            /\ lpc' # lpc
            /\ pc' = pc /\ op' = op /\ ret' = ret /\ spc' = spc
       /\ lpc \in Ended => file' = file
      ]_vars

C27_Witness ==
    /\ lpc = "done"
    /\ spc = "done"
    /\ file.kind = "data" /\ file # InitFile
    /\ unsaved
    /\ \A c \in Clients : pc[c] = "idle"

\* the persistence loop takes a step from `at`, shutdown being requested
StoppedAt(at) == lpc = at /\ lpc' # lpc /\ persist_stop

\* C28 (as stated): when the loop wakes from its wait on the change signal
\* and shutdown has been requested, it exits the loop there, before the
\* debounce wait and the persist step (or goes to a dirty test that has
\* nothing to persist, which comes to the same).
C28_ExitOnWake ==
    [][StoppedAt("wait_change") =>
          (lpc' = "done" \/ (lpc' = "check_dirty" /\ ~dirty))]_vars

\* C28 (amended): when the loop wakes from its wait on the change signal and
\* shutdown has been requested, it does not exit there: it goes on, with no
\* debounce wait, to the dirty test and, if dirty is true, into the persist
\* step; the request ends the loop only at the loop test that follows.
C28_PersistThenExit ==
    [][/\ StoppedAt("wait_change") => lpc' = "check_dirty"
       /\ (StoppedAt("check_dirty") /\ dirty) =>
             /\ last_save' = now
             /\ lpc' = (IF db_file THEN "persist_lock" ELSE "loop_test")
       /\ lpc' = "done" => lpc \in {"done", "loop_test"}
       /\ StoppedAt("loop_test") => lpc' = "done"
      ]_vars

\* the loop has woken on the signal of shutdown() (no call has set the signal
\* yet, nothing was saved before) and has found dirty true
C28_Witness ==
    /\ lpc = "persist_lock"
    /\ spc = "done"
    /\ db_file
    /\ last_write = -1
    /\ quota = MaxCalls - 1
    /\ \E c \in Clients : pc[c] = "signal"

\* C29: a shutdown request made while the loop is in its debounce wait, with
\* time left to wait, ends the wait, and the persist step that follows runs
\* if dirty is true: it writes the full current snapshot, clears dirty and
\* records last_save.
C29_StopEndsDebounce ==
    (lpc = "debounce" /\ now < deadline /\ persist_stop /\ dirty)
        ~> (/\ lpc = "loop_test"
            /\ file = Written(Dump(records))
            /\ ~dirty
            /\ last_save = now)

\* ------------------------------------------- claims on the calls, continued
\* C30: update on a resource that was never referenced fails with NotFound
\* and yet creates the resource as an empty map: afterwards
\* available_resources() reports it and list on it returns an empty sequence,
\* not NotFound; dirty and the change signal stay as they were.
C30_FailedUpdateAddsResource ==
    [][(Called("update") /\ op'[Caller].resource \notin DOMAIN records) =>
          LET r == op'[Caller].resource
              names == available_resources(records')
          IN  /\ ret'[Caller] = Raise("NotFound")
              /\ r \in DOMAIN records'
              /\ records'[r] = EmptyFn
              /\ \E k \in DOMAIN names : names[k] = r
              /\ list_resource(records', r, NoFields, {}) = Ok(<<>>)
              /\ dirty' = dirty
              /\ data_changed' = data_changed
      ]_vars

C30_Witness ==
    /\ quota = MaxCalls - 1
    /\ op[Caller].kind = "update"
    /\ op[Caller].resource = "r2"
    /\ ret[Caller] = Raise("NotFound")
    /\ "r2" \in DOMAIN records
    /\ records["r2"] = EmptyFn
    /\ ~dirty

\* --------------------------------------------------- claims on the query
\* the record matches the value of name= (C23, C24)
Fits(rec, value) == Matches(build_query_filter("name", value, WILD_CARD), rec)

\* the records of People that match every value of name=, as _f projects them
Expected(fields, names) ==
    LET all == SelectSeq(People, LAMBDA rec :
                   \A k \in DOMAIN names : Fits(rec, names[k]))
        keys == {Key(fields[k]) : k \in DOMAIN fields}
    IN  [k \in 1..Len(all) |->
            IF fields = <<>> THEN all[k]
            ELSE [key \in (DOMAIN all[k]) \cap keys |-> all[k][key]]]

\* C31: when a query parameter other than _f comes with several values, one
\* filter is built for each value and list applies them all: the records
\* returned are those that match every value (AND, not OR); _f never becomes
\* a filter.
C31_EveryValueMustMatch ==
    op[Caller].kind = "query" =>
        ret[Caller] = Ok(Expected(op[Caller].fields, op[Caller].names))

\* ?_f=name&name=*e&name=A*: Alice matches both values, and only Alice
C31_Witness ==
    /\ op[Caller].kind = "query"
    /\ op[Caller].names = << <<"*", "e">>, <<"A", "*">> >>
    /\ op[Caller].fields = << <<"n", "a", "m", "e">> >>
    /\ ret[Caller] = Ok(<< [name |-> StrValue(Alice)] >>)

\* ------------------------------------- claims on the threads, continued
\* C32: no wake-up is lost: with a backing file configured and data_lock
\* free, dirty true implies that the change signal is set, and the loop is
\* never blocked on the change signal while a mutation is unflushed.
C32_NoLostWakeup ==
    (db_file /\ data_lock = "free") =>
        /\ dirty => data_changed
        /\ (lpc = "wait_change" /\ unsaved) => data_changed

\* a mutation applied after a write of the file: the loop is back at its
\* wait, and the signal is set again
C32_Witness ==
    /\ db_file
    /\ data_lock = "free"
    /\ burst_writes >= 1
    /\ lpc = "wait_change"
    /\ dirty /\ unsaved /\ data_changed

\* ------------------------------------------- claims on the calls, continued
\* C33: a call that fails (create with DuplicateValue, set with MissingId,
\* update or delete with NotFound) leaves the resources, every stored record,
\* dirty and the change signal exactly as they were.
C33_FailureChangesNothing ==
    [][(/\ quota' = quota - 1
        /\ ret'[Caller].status \in {"DuplicateValue", "MissingId", "NotFound"})
          => /\ records' = records
             /\ dirty' = dirty
             /\ data_changed' = data_changed]_vars

\* ---------------------------------------------------- claims on the reads
\* C34: available_resources, list and read change nothing: the resources,
\* the stored records, dirty, the change signal and last_save are after the
\* call what they were before it, and as long as no call has changed a
\* record the backing file is not written.
C34_ReadsChangeNothing ==
    [][/\ \A c \in Clients :
            (pc[c] = "read" /\ pc'[c] = "idle") =>
                /\ records' = records
                /\ dirty' = dirty
                /\ data_changed' = data_changed
                /\ last_save' = last_save
                /\ file' = file
       /\ last_mut' = -1 => (file' = file /\ last_save' = -1)
      ]_vars

\* a list of an unknown resource has failed, reads were all the calls, the
\* loop has run and ended, and nothing was written
C34_Witness ==
    /\ quota = 0
    /\ last_mut = -1
    /\ DOMAIN records = {}
    /\ \E c \in Clients : ret[c] = Raise("NotFound")
    /\ \E c \in Clients : ret[c] = Ok(<<>>)
    /\ lpc = "done"
    /\ file = NoFile

\* ------------------------------------------- claims on the calls, continued
\* C35: the resources known to the store never get fewer: no call removes a
\* resource, and when delete has removed the last record of a resource, the
\* resource is still known and list on it returns an empty sequence, not
\* NotFound.
C35_ResourcesStay ==
    [][/\ DOMAIN records \subseteq DOMAIN records'
       /\ Succeeded("delete") =>
             LET r == op'[Caller].resource
                 names == available_resources(records')
             IN  /\ r \in DOMAIN records'
                 /\ \E k \in DOMAIN names : names[k] = r
                 /\ DOMAIN records'[r] = {} =>
                       list_resource(records', r, NoFields, {}) = Ok(<<>>)
      ]_vars

C35_Witness ==
    /\ op[Caller].kind = "delete"
    /\ ret[Caller].status = "ok"
    /\ op[Caller].resource \in DOMAIN records
    /\ records[op[Caller].resource] = EmptyFn

====
